---- MODULE Spec2Model ----
(***************************************************************************)
(* Model of the reflective decode engine of go-plist (unmarshal.go).       *)
(*                                                                         *)
(* A document node (cfValue) is a tagged record, a destination handle      *)
(* (reflect.Value) is a type descriptor together with the contents of the  *)
(* memory it refers to.  Decoder.unmarshal and the functions it calls are  *)
(* operators that return the destination's new contents and the error.     *)
(* The state machine is a caller that owns one destination and decodes     *)
(* document nodes into it.                                                 *)
(***************************************************************************)
EXTENDS Integers, Sequences, FiniteSets, TLC

VARIABLES
    destType,  \* static type of the caller's destination
    dest,      \* current contents of the destination
    before,    \* contents of the destination before the last decode call
    doc,       \* document node handed to the last decode call
    result,    \* error returned by the last decode call
    laxMode,   \* Decoder.lax
    ncalls     \* number of decode calls made so far on this destination

vars == <<destType, dest, before, doc, result, laxMode, ncalls>>

(***************************************************************************)
(* Bounds of the exploration.                                              *)
(***************************************************************************)
MaxElems == 2   \* longest source Array
MaxPairs == 2   \* longest source Dictionary
MaxCalls == 2   \* successive sequence decodes into one destination

(***************************************************************************)
(* Small helpers.                                                          *)
(***************************************************************************)
Range(s) == {s[i] : i \in 1..Len(s)}

SeqsUpTo(S, n) == UNION {[1..k -> S] : k \in 0..n}

(***************************************************************************)
(* Document nodes (cfValue).  typeName is the node's kind name.            *)
(***************************************************************************)
Nil == [t |-> "nil"]

CfString(s) == [t |-> "string", s |-> s]

CfNumber(n, signed) == [t |-> "integer", value |-> n, signed |-> signed]

CfReal(f, wide) == [t |-> "real", real |-> f, wide |-> wide]

CfBoolean(b) == [t |-> "boolean", b |-> b]

CfData(bytes) == [t |-> "data", bytes |-> bytes]

CfDate(tm) == [t |-> "date", time |-> tm]

CfUID(u) == [t |-> "uid", uid |-> u]

CfArray(values) == [t |-> "array", values |-> values]

CfDictionary(keys, values) == [t |-> "dictionary", keys |-> keys, values |-> values]

typeName(pval) == pval.t

(***************************************************************************)
(* Destination types (reflect.Type): kind is the reflect.Kind, name the    *)
(* type's identity, hook the decode capability the type implements.        *)
(***************************************************************************)
Scalar(kind, name) == [kind |-> kind, name |-> name, hook |-> "none"]

Int64T == Scalar("int64", "int64")

Int8T == Scalar("int8", "int8")

Uint64T == Scalar("uint64", "uint64")

Uint8T == Scalar("uint8", "uint8")

UIDT == Scalar("uint64", "plist.UID")

Float64T == Scalar("float64", "float64")

Float32T == Scalar("float32", "float32")

BoolT == Scalar("bool", "bool")

StringT == Scalar("string", "string")

\* time.Time: a struct with no exported field
TimeT == [kind |-> "struct", name |-> "time.Time", hook |-> "none", fields |-> <<>>, infoOK |-> TRUE]

AnyT == [kind |-> "interface", name |-> "interface {}", hook |-> "none", methods |-> 0]

\* An interface type with a method: not the empty interface.
StringerT == [kind |-> "interface", name |-> "fmt.Stringer", hook |-> "none", methods |-> 1]

SliceOf(elem, name) == [kind |-> "slice", name |-> name, hook |-> "none", elem |-> elem]

ArrayOf(elem, size, name) ==
    [kind |-> "array", name |-> name, hook |-> "none", elem |-> elem, size |-> size]

PtrTo(elem, name) == [kind |-> "ptr", name |-> name, hook |-> "none", elem |-> elem]

MapOf(keyOK, elem, name) ==
    [kind |-> "map", name |-> name, hook |-> "none", keyOK |-> keyOK, elem |-> elem]

Field(name, typ, settable) == [name |-> name, typ |-> typ, settable |-> settable]

StructOf(fields, infoOK, name) ==
    [kind |-> "struct", name |-> name, hook |-> "none", fields |-> fields, infoOK |-> infoOK]

\* A type implementing Unmarshaler: its UnmarshalPlist decodes into a target type.
CustomOf(target, name) ==
    [kind |-> "struct", name |-> name, hook |-> "plist", target |-> target]

\* A type implementing encoding.TextUnmarshaler.
TextT == [kind |-> "struct", name |-> "Texty", hook |-> "text"]

timeType == "time.Time"

uidType == "plist.UID"

IsIntKind(k) == k \in {"int", "int8", "int16", "int32", "int64"}

IsUintKind(k) == k \in {"uint", "uint8", "uint16", "uint32", "uint64", "uintptr"}

IsFloatKind(k) == k \in {"float32", "float64"}

isEmptyInterface(typ) == typ.kind = "interface" /\ typ.methods = 0

implementsInterface(typ, capability) == typ.hook = capability

(***************************************************************************)
(* Errors.  A nil error is NoErr; every other error is a record whose      *)
(* field e names its kind.                                                 *)
(***************************************************************************)
NoErr == [e |-> "nil"]

IsErr(x) == x.e # "nil"

incompatibleDecodeTypeError(typ, src) == [e |-> "incompatible", dest |-> typ.name, src |-> src]

byteSizeError(n, size) == [e |-> "bytesize", n |-> n, size |-> size]

arraySizeError(n, size) == [e |-> "arraysize", n |-> n, size |-> size]

keyTypeError(typ) == [e |-> "keytype", dest |-> typ.name]

notSettableError(name) == [e |-> "notsettable", field |-> name]

unknownTypeError(pval) == [e |-> "unknown", src |-> pval.t]

\* fmt.Errorf("<location>: %w", err)
wrapError(loc, cause) == [e |-> "wrap", loc |-> loc, cause |-> cause]

elementLoc(n) == [at |-> "element", n |-> n]

fieldLoc(name) == [at |-> "field", field |-> name]

mapKeyLoc(k) == [at |-> "map key", key |-> k]

\* Mutation: the collection keeps only the latest cause.
multierrorKeepLast(resultErr, cause) == [e |-> "multi", errors |-> <<cause>>]

\* multierror.Append(resultErr, cause): cause is never itself a multierror
\* here (it is a fmt wrapper or a plain error), so nothing is flattened.
multierrorAppend(resultErr, cause) ==
    IF resultErr.e = "nil"
    THEN [e |-> "multi", errors |-> <<cause>>]
    ELSE [e |-> "multi", errors |-> Append(resultErr.errors, cause)]

Ret(val, error) == [val |-> val, err |-> error]

(***************************************************************************)
(* reflect.Zero / reflect.New(t).Elem(): the zero value of a type.         *)
(***************************************************************************)
RECURSIVE Zero(_)
Zero(typ) ==
    CASE IsIntKind(typ.kind) \/ IsUintKind(typ.kind) \/ IsFloatKind(typ.kind) -> 0
      [] typ.kind = "bool" -> FALSE
      [] typ.kind = "string" -> ""
      [] typ.kind = "interface" -> [dyn |-> "nil"]
      [] typ.kind = "slice" -> [len |-> 0, arr |-> <<>>]
      [] typ.kind = "array" -> [i \in 1..typ.size |-> Zero(typ.elem)]
      [] typ.kind = "ptr" -> [isnil |-> TRUE]
      [] typ.kind = "map" -> [isnil |-> TRUE, m |-> <<>>]
      [] typ.kind = "struct" /\ typ.name = timeType -> 0
      [] typ.kind = "struct" /\ typ.hook = "plist" -> [calls |-> 0, got |-> Zero(typ.target)]
      [] typ.kind = "struct" /\ typ.hook = "text" -> [calls |-> 0, text |-> ""]
      [] OTHER -> [j \in 1..Len(typ.fields) |-> Zero(typ.fields[j].typ)]

(***************************************************************************)
(* reflect.Value setters: an integer is stored in the width of its kind.   *)
(***************************************************************************)
SetInt(typ, i) == IF typ.kind = "int8" THEN ((i + 128) % 256) - 128 ELSE i

SetUint(typ, u) == IF typ.kind = "uint8" THEN u % 256 ELSE u

(***************************************************************************)
(* The string-parsing primitives of lax mode.  Each returns the parsed     *)
(* value or a failure, over the texts the model uses.                      *)
(***************************************************************************)
parseFailure(s) == [ok |-> FALSE, err |-> [e |-> "parse", text |-> s]]

mustParseInt(s) ==
    CASE s = "42" -> [ok |-> TRUE, v |-> 42]
      [] s = "1" -> [ok |-> TRUE, v |-> 1]
      [] OTHER -> parseFailure(s)

mustParseUint(s) ==
    CASE s = "42" -> [ok |-> TRUE, v |-> 42]
      [] s = "1" -> [ok |-> TRUE, v |-> 1]
      [] OTHER -> parseFailure(s)

mustParseFloat(s) ==
    CASE s = "42" -> [ok |-> TRUE, v |-> 42]
      [] s = "1" -> [ok |-> TRUE, v |-> 1]
      [] OTHER -> parseFailure(s)

mustParseBool(s) ==
    CASE s = "1" -> [ok |-> TRUE, v |-> TRUE]
      [] s = "true" -> [ok |-> TRUE, v |-> TRUE]
      [] OTHER -> parseFailure(s)

\* time.Parse(textPlistTimeLayout, s) followed by t.In(time.UTC)
timeParse(s) ==
    CASE s = "2001-01-01 00:00:09 +0000" -> [ok |-> TRUE, v |-> 9]
      [] OTHER -> parseFailure(s)

unmarshalLaxString(s, typ, val) ==
    CASE IsIntKind(typ.kind) ->
            LET i == mustParseInt(s)
            IN IF i.ok THEN Ret(SetInt(typ, i.v), NoErr) ELSE Ret(val, i.err)
      [] IsUintKind(typ.kind) ->
            LET i == mustParseUint(s)
            IN IF i.ok THEN Ret(SetUint(typ, i.v), NoErr) ELSE Ret(val, i.err)
      [] IsFloatKind(typ.kind) ->
            LET f == mustParseFloat(s)
            IN IF f.ok THEN Ret(f.v, NoErr) ELSE Ret(val, f.err)
      [] typ.kind = "bool" ->
            LET b == mustParseBool(s)
            IN IF b.ok THEN Ret(b.v, NoErr) ELSE Ret(val, b.err)
      [] typ.kind = "struct" /\ typ.name = timeType ->
            LET t == timeParse(s)
            IN IF t.ok THEN Ret(t.v, NoErr) ELSE Ret(val, t.err)
      [] OTHER -> Ret(val, incompatibleDecodeTypeError(typ, "string"))

(***************************************************************************)
(* The dynamic materializer: the value stored in an interface{} slot.      *)
(***************************************************************************)
RECURSIVE valueInterface(_)
dictionaryInterface(dict) ==
    [dyn |-> "map[string]interface {}",
     m |-> [k \in Range(dict.keys) |->
              LET last == CHOOSE i \in 1..Len(dict.keys) :
                              /\ dict.keys[i] = k
                              /\ \A j \in (i + 1)..Len(dict.keys) : dict.keys[j] # k
              IN valueInterface(dict.values[last])]]

arrayInterface(a) ==
    [dyn |-> "[]interface {}",
     elems |-> [i \in 1..Len(a.values) |-> valueInterface(a.values[i])]]

valueInterface(pval) ==
    CASE pval.t = "string" -> [dyn |-> "string", s |-> pval.s]
      [] pval.t = "integer" ->
            IF pval.signed THEN [dyn |-> "int64", n |-> pval.value]
            ELSE [dyn |-> "uint64", n |-> pval.value]
      [] pval.t = "real" ->
            IF pval.wide THEN [dyn |-> "float64", f |-> pval.real]
            ELSE [dyn |-> "float32", f |-> pval.real]
      [] pval.t = "boolean" -> [dyn |-> "bool", b |-> pval.b]
      [] pval.t = "array" -> arrayInterface(pval)
      [] pval.t = "dictionary" -> dictionaryInterface(pval)
      [] pval.t = "data" -> [dyn |-> "[]uint8", bytes |-> pval.bytes]
      [] pval.t = "date" -> [dyn |-> "time.Time", time |-> pval.time]
      [] pval.t = "uid" -> [dyn |-> "plist.UID", uid |-> pval.uid]
      [] OTHER -> [dyn |-> "nil"]

(***************************************************************************)
(* The decode hooks a destination type may implement.  UnmarshalPlist of   *)
(* a CustomOf type asks the engine, through the callback it is given, to   *)
(* decode the node into a fresh target and keeps the target on success;    *)
(* it counts its invocations.  UnmarshalText of TextT keeps the text and   *)
(* rejects the text "abc".                                                 *)
(***************************************************************************)
RECURSIVE unmarshal(_, _, _, _)

unmarshalPlistInterface(pval, typ, val, lax) ==
    LET r == unmarshal(pval, PtrTo(typ.target, "*"),
                       [isnil |-> FALSE, elem |-> Zero(typ.target)], lax)
    IN Ret([calls |-> val.calls + 1,
            got |-> IF IsErr(r.err) THEN val.got ELSE r.val.elem],
           r.err)

unmarshalTextInterface(pval, val) ==
    IF pval.s = "abc"
    THEN Ret([calls |-> val.calls + 1, text |-> val.text], [e |-> "hook", text |-> pval.s])
    ELSE Ret([calls |-> val.calls + 1, text |-> pval.s], NoErr)

unmarshalTime(pval) == pval.time

(***************************************************************************)
(* The conditions Decoder.unmarshal branches on.                           *)
(***************************************************************************)
\* Mutation: an absent node is not recognised.
isAbsentNever(pval) == FALSE

isAbsent(pval) == pval.t = "nil"

\* Mutation: the Date step is skipped.
isDateNever(pval) == FALSE

isDate(pval) == pval.t = "date"

\* Mutation: lax coercion is not gated by the flag.
laxAlways(lax) == TRUE

laxEnabled(lax) == lax

\* Mutation: a Number is refused by unsigned destinations.
numberCompatibleSigned(typ) == IsIntKind(typ.kind)

numberCompatible(typ) == IsIntKind(typ.kind) \/ IsUintKind(typ.kind)

realCompatible(typ) == typ.kind = "float32" \/ typ.kind = "float64"

dataCompatible(typ) ==
    /\ typ.kind = "slice" \/ typ.kind = "array"
    /\ typ.elem.kind = "uint8"

uidCompatible(typ) ==
    typ.name = uidType \/ IsIntKind(typ.kind) \/ IsUintKind(typ.kind)

\* reflect.Copy(val, b) into a fixed-size byte array: the prefix is written.
copyBytes(val, b) == [i \in 1..Len(val) |-> IF i <= Len(b) THEN b[i] ELSE val[i]]

unmarshalData(pval, typ, val) ==
    IF ~dataCompatible(typ)
    THEN Ret(val, incompatibleDecodeTypeError(typ, typeName(pval)))
    ELSE IF typ.kind = "slice"
    THEN Ret([len |-> Len(pval.bytes), arr |-> pval.bytes], NoErr)
    ELSE IF Len(val) < Len(pval.bytes)
    THEN Ret(val, byteSizeError(Len(pval.bytes), Len(val)))
    ELSE Ret(copyBytes(val, pval.bytes), NoErr)

(***************************************************************************)
(* Sequence decode.  A slice is its length and its backing array (whose    *)
(* length is the capacity); a fixed-size array is its elements.            *)
(***************************************************************************)
growSliceCap(cap) ==
    IF cap = 0 THEN 4
    ELSE IF cap < 1024 THEN cap * 2
    ELSE cap + cap \div 4

RECURSIVE growTo(_, _)
growTo(ncap, cnt) == IF ncap < cnt THEN growTo(growSliceCap(ncap), cnt) ELSE ncap

\* reflect.MakeSlice(typ, val.Len(), ncap) followed by reflect.Copy(new, val)
grownSlice(typ, val, cnt) ==
    LET ncap == growTo(Len(val.arr), cnt)
    IN [len |-> val.len,
        arr |-> [i \in 1..ncap |-> IF i <= val.len THEN val.arr[i] ELSE Zero(typ.elem)]]

\* Mutation: elements are decoded from index 0 of a growable destination too.
firstIndexZero(typ, val) == 0

\* the index the first source element is decoded at
firstIndex(typ, val) == IF typ.kind = "slice" THEN val.len ELSE 0

\* Mutation: an Array that exactly fills the destination is refused.
arrayTooSmallOrFull(a, val) == Len(a.values) >= Len(val)

arrayTooSmall(a, val) == Len(a.values) > Len(val)

RECURSIVE arrayLoop(_, _, _, _, _, _, _)
arrayLoop(values, elemTyp, arr, n, i, resultErr, lax) ==
    IF i > Len(values) THEN Ret(arr, resultErr)
    ELSE LET r == unmarshal(values[i], elemTyp, arr[n + 1], lax)
             e == IF IsErr(r.err)
                  THEN multierrorAppend(resultErr, wrapError(elementLoc(n), r.err))
                  ELSE resultErr
         IN arrayLoop(values, elemTyp, [arr EXCEPT ![n + 1] = r.val], n + 1, i + 1, e, lax)

unmarshalArray(a, typ, val, lax) ==
    IF typ.kind = "slice"
    THEN LET cnt == Len(a.values) + val.len
             grown == IF cnt > Len(val.arr) THEN grownSlice(typ, val, cnt) ELSE val
             r == arrayLoop(a.values, typ.elem, grown.arr, firstIndex(typ, grown), 1, NoErr, lax)
         IN Ret([len |-> cnt, arr |-> r.val], r.err)
    ELSE IF typ.kind = "array"
    THEN IF arrayTooSmall(a, val)
         THEN Ret(val, arraySizeError(Len(a.values), Len(val)))
         ELSE arrayLoop(a.values, typ.elem, val, firstIndex(typ, val), 1, NoErr, lax)
    ELSE Ret(val, incompatibleDecodeTypeError(typ, typeName(a)))

(***************************************************************************)
(* Mapping decode.  A record is the tuple of its fields' contents, in the  *)
(* order of the type's field descriptors; a map is a function from keys.   *)
(***************************************************************************)
\* Mutation: the lookup ignores the field's name.
lookupEntryAny(dict, name) ==
    IF Len(dict.keys) = 0 THEN [ok |-> FALSE, ent |-> Nil]
    ELSE [ok |-> TRUE, ent |-> dict.values[Len(dict.keys)]]

\* ent, ok := entries[name], entries being filled in document order
lookupEntry(dict, name) ==
    LET at == {i \in 1..Len(dict.keys) : dict.keys[i] = name}
    IN IF at = {} THEN [ok |-> FALSE, ent |-> Nil]
       ELSE [ok |-> TRUE, ent |-> dict.values[CHOOSE i \in at : \A j \in at : j <= i]]

RECURSIVE structLoop(_, _, _, _, _, _)
structLoop(dict, fields, val, j, resultErr, lax) ==
    IF j > Len(fields) THEN Ret(val, resultErr)
    ELSE IF ~lookupEntry(dict, fields[j].name).ok
    THEN structLoop(dict, fields, val, j + 1, resultErr, lax)
    ELSE IF ~fields[j].settable
    THEN structLoop(dict, fields, val, j + 1,
                    multierrorAppend(resultErr, notSettableError(fields[j].name)), lax)
    ELSE LET r == unmarshal(lookupEntry(dict, fields[j].name).ent, fields[j].typ, val[j], lax)
             e == IF IsErr(r.err)
                  THEN multierrorAppend(resultErr, wrapError(fieldLoc(fields[j].name), r.err))
                  ELSE resultErr
         IN structLoop(dict, fields, [val EXCEPT ![j] = r.val], j + 1, e, lax)

\* Mutation: a key already in the map is not overwritten.
setMapIndexIfAbsent(m, k, elem) ==
    [x \in DOMAIN m \cup {k} |-> IF x \in DOMAIN m THEN m[x] ELSE elem]

\* val.SetMapIndex(keyv, mapElem)
setMapIndex(m, k, elem) == [x \in DOMAIN m \cup {k} |-> IF x = k THEN elem ELSE m[x]]

RECURSIVE mapLoop(_, _, _, _, _, _)
mapLoop(dict, elemTyp, m, i, resultErr, lax) ==
    IF i > Len(dict.keys) THEN Ret(m, resultErr)
    ELSE LET r == unmarshal(dict.values[i], elemTyp, Zero(elemTyp), lax)
         IN IF IsErr(r.err)
            THEN mapLoop(dict, elemTyp, m, i + 1,
                         multierrorAppend(resultErr, wrapError(mapKeyLoc(dict.keys[i]), r.err)),
                         lax)
            ELSE mapLoop(dict, elemTyp, setMapIndex(m, dict.keys[i], r.val), i + 1,
                         resultErr, lax)

unmarshalDictionary(dict, typ, val, lax) ==
    IF typ.kind = "struct"
    THEN IF ~typ.infoOK
         THEN Ret(val, [e |-> "typeinfo", dest |-> typ.name])
         ELSE structLoop(dict, typ.fields, val, 1, NoErr, lax)
    ELSE IF typ.kind = "map"
    THEN LET made == IF val.isnil THEN [isnil |-> FALSE, m |-> <<>>] ELSE val
         IN IF ~typ.keyOK
            THEN Ret(made, keyTypeError(typ))
            ELSE LET r == mapLoop(dict, typ.elem, made.m, 1, NoErr, lax)
                 IN Ret([isnil |-> FALSE, m |-> r.val], r.err)
    ELSE Ret(val, incompatibleDecodeTypeError(typ, typeName(dict)))

(***************************************************************************)
(* Decoder.unmarshal.                                                      *)
(***************************************************************************)
\* the structural dispatch on the node's kind (the type switch)
dispatch(pval, typ, val, lax) ==
    LET incompatibleTypeError == incompatibleDecodeTypeError(typ, typeName(pval))
    IN CASE pval.t = "string" ->
                IF typ.kind = "string" THEN Ret(pval.s, NoErr)
                ELSE IF laxEnabled(lax) THEN unmarshalLaxString(pval.s, typ, val)
                ELSE Ret(val, incompatibleTypeError)
         [] pval.t = "integer" ->
                IF ~numberCompatible(typ) THEN Ret(val, incompatibleTypeError)
                ELSE IF IsIntKind(typ.kind) THEN Ret(SetInt(typ, pval.value), NoErr)
                ELSE Ret(SetUint(typ, pval.value), NoErr)
         [] pval.t = "real" ->
                IF realCompatible(typ) THEN Ret(pval.real, NoErr)
                ELSE Ret(val, incompatibleTypeError)
         [] pval.t = "boolean" ->
                IF typ.kind = "bool" THEN Ret(pval.b, NoErr)
                ELSE Ret(val, incompatibleTypeError)
         [] pval.t = "data" -> unmarshalData(pval, typ, val)
         [] pval.t = "uid" ->
                IF ~uidCompatible(typ) THEN Ret(val, incompatibleTypeError)
                ELSE IF typ.name = uidType THEN Ret(SetUint(typ, pval.uid), NoErr)
                ELSE IF IsIntKind(typ.kind) THEN Ret(SetInt(typ, pval.uid), NoErr)
                ELSE Ret(SetUint(typ, pval.uid), NoErr)
         [] pval.t = "array" -> unmarshalArray(pval, typ, val, lax)
         [] pval.t = "dictionary" -> unmarshalDictionary(pval, typ, val, lax)
         [] OTHER -> Ret(val, unknownTypeError(pval))

\* unmarshal once the destination's pointers are resolved
unmarshalResolved(pval, typ, val, lax) ==
    IF isEmptyInterface(typ) THEN Ret(valueInterface(pval), NoErr)
    ELSE IF implementsInterface(typ, "plist")
    THEN unmarshalPlistInterface(pval, typ, val, lax)
    ELSE IF isDate(pval)
    THEN IF typ.name = timeType
         THEN Ret(unmarshalTime(pval), NoErr)
         ELSE Ret(val, incompatibleDecodeTypeError(typ, typeName(pval)))
    ELSE IF typ.name # timeType /\ implementsInterface(typ, "text")
    THEN IF pval.t = "string"
         THEN unmarshalTextInterface(pval, val)
         ELSE Ret(val, incompatibleDecodeTypeError(typ, typeName(pval)))
    ELSE dispatch(pval, typ, val, lax)

unmarshal(pval, typ, val, lax) ==
    IF isAbsent(pval) THEN Ret(val, NoErr)
    ELSE IF typ.kind = "ptr"
    THEN LET r == unmarshal(pval, typ.elem,
                            IF val.isnil THEN Zero(typ.elem) ELSE val.elem, lax)
         IN Ret([isnil |-> FALSE, elem |-> r.val], r.err)
    ELSE unmarshalResolved(pval, typ, val, lax)

(***************************************************************************)
(* The caller: destinations it may own and documents it may decode.        *)
(***************************************************************************)
IntSliceT == SliceOf(Int64T, "[]int64")

StringSliceT == SliceOf(StringT, "[]string")

ByteSliceT == SliceOf(Uint8T, "[]uint8")

IntArrayT == ArrayOf(Int64T, 1, "[1]int64")

StringArrayT == ArrayOf(StringT, 2, "[2]string")

ByteArray2T == ArrayOf(Uint8T, 2, "[2]uint8")

ByteArray5T == ArrayOf(Uint8T, 5, "[5]uint8")

RecT == StructOf(<<Field("a", Int64T, TRUE), Field("b", StringT, TRUE)>>, TRUE, "Rec")

RecUT == StructOf(<<Field("a", Int64T, TRUE), Field("b", Int64T, FALSE)>>, TRUE, "RecU")

RecBadT == StructOf(<<Field("a", Int64T, TRUE)>>, FALSE, "RecBad")

IntMapT == MapOf(TRUE, Int64T, "map[string]int64")

StringMapT == MapOf(TRUE, StringT, "map[string]string")

BadKeyMapT == MapOf(FALSE, Int64T, "map[int]int64")

IntPtrT == PtrTo(Int64T, "*int64")

IntPtrPtrT == PtrTo(IntPtrT, "**int64")

CustomIntT == CustomOf(Int64T, "CustomInt")

CustomAnyT == CustomOf(AnyT, "CustomAny")

Dst(typ, val) == [typ |-> typ, val |-> val]

Destinations ==
    << Dst(Int64T, 7), Dst(Int8T, 7), Dst(Uint64T, 7), Dst(Uint8T, 7), Dst(UIDT, 7),
       Dst(Float64T, 7), Dst(Float32T, 7), Dst(BoolT, FALSE), Dst(StringT, "old"),
       Dst(TimeT, 7),
       Dst(AnyT, [dyn |-> "nil"]), Dst(AnyT, [dyn |-> "string", s |-> "old"]),
       Dst(StringerT, [dyn |-> "nil"]),
       Dst(ByteSliceT, [len |-> 1, arr |-> <<9>>]),
       Dst(ByteArray2T, <<9, 9>>), Dst(ByteArray5T, <<9, 9, 9, 9, 9>>),
       Dst(IntSliceT, [len |-> 0, arr |-> <<>>]),
       Dst(IntSliceT, [len |-> 1, arr |-> <<7>>]),
       Dst(IntSliceT, [len |-> 1, arr |-> <<7, 8, 8>>]),
       Dst(StringSliceT, [len |-> 2, arr |-> <<"old", "old">>]),
       Dst(IntArrayT, <<7>>), Dst(StringArrayT, <<"old", "old">>),
       Dst(RecT, <<7, "old">>), Dst(RecUT, <<7, 7>>), Dst(RecBadT, <<7>>),
       Dst(IntMapT, [isnil |-> TRUE, m |-> <<>>]),
       Dst(IntMapT, [isnil |-> FALSE, m |-> [k \in {"a", "c"} |-> 7]]),
       Dst(StringMapT, [isnil |-> FALSE, m |-> [k \in {"b"} |-> "old"]]),
       Dst(BadKeyMapT, [isnil |-> TRUE, m |-> <<>>]),
       Dst(IntPtrT, [isnil |-> TRUE]), Dst(IntPtrT, [isnil |-> FALSE, elem |-> 7]),
       Dst(IntPtrPtrT, [isnil |-> TRUE]),
       Dst(CustomIntT, [calls |-> 0, got |-> 7]),
       Dst(CustomAnyT, [calls |-> 0, got |-> [dyn |-> "nil"]]),
       Dst(TextT, [calls |-> 0, text |-> "old"]) >>

ScalarNodes ==
    { CfString("42"), CfString("abc"), CfString("1"), CfString("2001-01-01 00:00:09 +0000"),
      CfNumber(5, FALSE), CfNumber(300, TRUE), CfReal(2, TRUE), CfReal(3, FALSE),
      CfBoolean(TRUE), CfData(<<1, 2, 3>>), CfData(<<1>>), CfDate(3), CfUID(4) }

ArrayElems == {CfNumber(1, FALSE), CfString("42")}

ArrayNodes == {CfArray(vs) : vs \in SeqsUpTo(ArrayElems, MaxElems)}

DictKeys == {"a", "b", "z"}

DictValues == {CfNumber(1, FALSE), CfNumber(2, TRUE), CfString("42")}

DictNodes ==
    {CfDictionary([i \in 1..Len(ps) |-> ps[i][1]], [i \in 1..Len(ps) |-> ps[i][2]]) :
        ps \in SeqsUpTo(DictKeys \X DictValues, MaxPairs)}

(***************************************************************************)
(* The state machine.                                                      *)
(***************************************************************************)
Init ==
    /\ \E i \in 1..Len(Destinations) :
          /\ destType = Destinations[i].typ
          /\ dest = Destinations[i].val
          /\ before = Destinations[i].val
    /\ doc = Nil
    /\ result = NoErr
    /\ laxMode \in BOOLEAN
    /\ ncalls = 0

\* one call p.unmarshal(pval, reflect.ValueOf(destination))
Decode(pval) ==
    LET r == unmarshal(pval, destType, dest, laxMode)
    IN /\ dest' = r.val
       /\ result' = r.err
       /\ before' = dest
       /\ doc' = pval
       /\ ncalls' = ncalls + 1
       /\ UNCHANGED <<destType, laxMode>>

\* decode of an absent node into a fresh destination
DecodeAbsent == ncalls = 0 /\ Decode(Nil)

\* decode of a scalar node into a fresh destination
DecodeScalar == ncalls = 0 /\ \E pval \in ScalarNodes : Decode(pval)

\* decode of a Dictionary into a fresh destination
DecodeDictionary == ncalls = 0 /\ \E pval \in DictNodes : Decode(pval)

\* successive decodes of Arrays into the same destination
DecodeArray ==
    /\ ncalls < MaxCalls
    /\ ncalls = 0 \/ doc.t = "array"
    /\ \E pval \in ArrayNodes : Decode(pval)

Next == DecodeAbsent \/ DecodeScalar \/ DecodeDictionary \/ DecodeArray

Spec == Init /\ [][Next]_vars

(***************************************************************************)
(* Vocabulary of the properties.                                           *)
(***************************************************************************)
RECURSIVE ResolvedType(_)
ResolvedType(typ) == IF typ.kind = "ptr" THEN ResolvedType(typ.elem) ELSE typ

\* contents of the location a (possibly unset) chain of pointers leads to
RECURSIVE ResolvedVal(_, _)
ResolvedVal(typ, val) ==
    IF typ.kind # "ptr" THEN val
    ELSE IF val.isnil THEN Zero(ResolvedType(typ))
    ELSE ResolvedVal(typ.elem, val.elem)

\* the outcome of decoding one node on its own into a fresh location
DecodedAlone(pval, typ) == unmarshal(pval, typ, Zero(typ), laxMode)

Decodes(pval, typ) == ~IsErr(DecodedAlone(pval, typ).err)

\* number of causes of an error: 0 for success, -1 for a non-aggregated error
Causes(error) ==
    IF error.e = "nil" THEN 0
    ELSE IF error.e = "multi" THEN Len(error.errors)
    ELSE -1

IsScalarNode(pval) == pval.t \in {"string", "integer", "real", "boolean", "data", "uid"}

ArrayCall == ncalls > 0 /\ doc.t = "array"

DictCall == ncalls > 0 /\ doc.t = "dictionary"

KeyOccurs(k) == \E i \in 1..Len(doc.keys) : doc.keys[i] = k

\* position of the last occurrence of key k among the positions in S
LastIn(S, k) ==
    CHOOSE i \in S : doc.keys[i] = k /\ \A j \in S : doc.keys[j] = k => j <= i

(***************************************************************************)
(* C1: sequence decode of an Array of N elements into a growable           *)
(* destination of length L leaves it with length L+N, keeps elements       *)
(* [0,L) and stores the decoded value of source element i at L+i, on every *)
(* one of the successive calls into the same destination.                  *)
(***************************************************************************)
C1_SliceAppend ==
    (ArrayCall /\ destType.kind = "slice") =>
        LET L == before.len
            N == Len(doc.values)
        IN /\ dest.len = L + N
           /\ Len(dest.arr) >= dest.len
           /\ \A i \in 1..L : dest.arr[i] = before.arr[i]
           /\ \A i \in 1..N :
                 Decodes(doc.values[i], destType.elem) =>
                    dest.arr[L + i] = DecodedAlone(doc.values[i], destType.elem).val

\* a second call that appends two elements after existing ones and has to grow
C1_Witness ==
    /\ ArrayCall /\ destType.kind = "slice" /\ ncalls >= 2
    /\ before.len > 0 /\ Len(doc.values) = 2
    /\ Len(dest.arr) > Len(before.arr)
    /\ result.e = "nil"
    /\ dest.len = before.len + 2

(***************************************************************************)
(* C2: child failures are contained.  In a sequence, record or map decode  *)
(* the number of causes of the aggregated error equals the number of       *)
(* failing children, and every child that does not fail is decoded and     *)
(* written, wherever the failing children are.                             *)
(***************************************************************************)
SeqFailing == {i \in 1..Len(doc.values) : ~Decodes(doc.values[i], destType.elem)}

C2_Sequence ==
    LET first == IF destType.kind = "slice" THEN before.len ELSE 0
        cells == IF destType.kind = "slice" THEN dest.arr ELSE dest
    IN /\ Causes(result) = Cardinality(SeqFailing)
       /\ \A i \in (1..Len(doc.values)) \ SeqFailing :
             cells[first + i] = DecodedAlone(doc.values[i], destType.elem).val

RecChildren == {j \in 1..Len(destType.fields) : KeyOccurs(destType.fields[j].name)}

RecValue(j) == doc.values[LastIn(1..Len(doc.keys), destType.fields[j].name)]

RecFailing ==
    {j \in RecChildren :
        \/ ~destType.fields[j].settable
        \/ ~Decodes(RecValue(j), destType.fields[j].typ)}

C2_Record ==
    /\ Causes(result) = Cardinality(RecFailing)
    /\ \A j \in RecChildren \ RecFailing :
          dest[j] = DecodedAlone(RecValue(j), destType.fields[j].typ).val

MapFailing == {i \in 1..Len(doc.keys) : ~Decodes(doc.values[i], destType.elem)}

MapDecoded == (1..Len(doc.keys)) \ MapFailing

C2_Map ==
    /\ Causes(result) = Cardinality(MapFailing)
    /\ ~dest.isnil
    /\ \A i \in MapDecoded :
          /\ doc.keys[i] \in DOMAIN dest.m
          /\ i = LastIn(MapDecoded, doc.keys[i]) =>
                dest.m[doc.keys[i]] = DecodedAlone(doc.values[i], destType.elem).val

C3_FixedSize ==
    (ArrayCall /\ destType.kind = "array") =>
        LET N == Len(doc.values)
            C == Len(before)
        IN IF N > C
           THEN result.e = "arraysize" /\ dest = before
           ELSE /\ result.e # "arraysize"
                /\ \A i \in 1..N :
                      Decodes(doc.values[i], destType.elem) =>
                         dest[i] = DecodedAlone(doc.values[i], destType.elem).val

\* more elements than the destination holds, every one of which would decode
C3_Witness ==
    /\ ArrayCall /\ destType.kind = "array"
    /\ Len(doc.values) > Len(before)
    /\ SeqFailing = {}
    /\ result.e = "arraysize"

(***************************************************************************)
(* The compatibility table of scalar node kinds and destination kinds.     *)
(***************************************************************************)
InTable(kind, typ) ==
    CASE kind = "string" -> typ.kind = "string"
      [] kind = "integer" -> IsIntKind(typ.kind) \/ IsUintKind(typ.kind)
      [] kind = "real" -> IsFloatKind(typ.kind)
      [] kind = "boolean" -> typ.kind = "bool"
      [] kind = "data" -> typ.kind \in {"slice", "array"} /\ typ.elem.kind = "uint8"
      [] kind = "uid" -> typ.name = "plist.UID" \/ IsIntKind(typ.kind) \/ IsUintKind(typ.kind)
      [] OTHER -> FALSE

\* a strict decode of a scalar node into a destination without hooks
StrictScalarCall ==
    /\ ncalls > 0 /\ IsScalarNode(doc) /\ ~laxMode
    /\ ~isEmptyInterface(ResolvedType(destType))
    /\ ResolvedType(destType).hook = "none"

IsMismatch(error, typ, pval) ==
    error.e = "incompatible" /\ error.dest = typ.name /\ error.src = pval.t

\* a Data node whose payload is longer than the fixed-size byte destination
DataTooLong(pval, typ) ==
    pval.t = "data" /\ typ.kind = "array" /\ typ.elem.kind = "uint8" /\ Len(pval.bytes) > typ.size

(***************************************************************************)
(* C4 as stated: with lax mode off, no any-slot and no hook, decode of a   *)
(* scalar node succeeds if and only if the (node kind, destination kind)   *)
(* pair is in the compatibility table, and every pair outside the table    *)
(* gives a type-mismatch error carrying both names.                        *)
(***************************************************************************)
C4_TableIffSuccess ==
    StrictScalarCall =>
        LET typ == ResolvedType(destType)
        IN /\ (result.e = "nil") <=> InTable(doc.t, typ)
           /\ ~InTable(doc.t, typ) => IsMismatch(result, typ, doc)

(***************************************************************************)
(* C4 amended: decode succeeds if and only if the pair is in the table and *)
(* the node is not a Data payload longer than a fixed-size byte            *)
(* destination; that case gives a sizing error, and every pair outside the *)
(* table gives a type-mismatch error carrying both names.                  *)
(***************************************************************************)
C4_TableAndSize ==
    StrictScalarCall =>
        LET typ == ResolvedType(destType)
        IN /\ (result.e = "nil") <=> (InTable(doc.t, typ) /\ ~DataTooLong(doc, typ))
           /\ DataTooLong(doc, typ) => result.e = "bytesize"
           /\ ~InTable(doc.t, typ) => IsMismatch(result, typ, doc)

\* a Data payload of 3 bytes has been refused by a 2-byte destination
C4_Witness ==
    /\ StrictScalarCall /\ DataTooLong(doc, destType)
    /\ InTable(doc.t, destType)
    /\ result.e = "bytesize" /\ dest = before

(***************************************************************************)
(* C5 as stated: after mapping decode into a string-keyed map, the value   *)
(* at every key that has been decoded is the decoded value of the last     *)
(* occurrence of that key in document order.                               *)
(***************************************************************************)
MapCall == DictCall /\ destType.kind = "map" /\ destType.keyOK

C5_LastOccurrenceWins ==
    MapCall =>
        \A k \in {doc.keys[i] : i \in MapDecoded} :
            LET last == LastIn(1..Len(doc.keys), k)
            IN /\ last \in MapDecoded
               /\ dest.m[k] = DecodedAlone(doc.values[last], destType.elem).val

(***************************************************************************)
(* C5 amended: the value at every key of the dictionary is the decoded     *)
(* value of the last occurrence of that key that decodes without error; a  *)
(* key none of whose occurrences decodes is left as it was.                *)
(***************************************************************************)
C5_LastDecodedWins ==
    MapCall =>
        \A k \in {doc.keys[i] : i \in 1..Len(doc.keys)} :
            IF \E i \in MapDecoded : doc.keys[i] = k
            THEN /\ k \in DOMAIN dest.m
                 /\ dest.m[k] =
                       DecodedAlone(doc.values[LastIn(MapDecoded, k)], destType.elem).val
            ELSE /\ (k \in DOMAIN dest.m) <=> (k \in DOMAIN before.m)
                 /\ k \in DOMAIN before.m => dest.m[k] = before.m[k]

\* the same key twice with different values, both of which decode
C5_Witness ==
    /\ MapCall /\ Len(doc.keys) = 2 /\ doc.keys[1] = doc.keys[2]
    /\ MapDecoded = {1, 2}
    /\ doc.values[1] # doc.values[2]
    /\ dest.m[doc.keys[2]] = DecodedAlone(doc.values[2], destType.elem).val
    /\ dest.m[doc.keys[2]] # DecodedAlone(doc.values[1], destType.elem).val

(***************************************************************************)
(* C6: mapping decode into a record writes only fields that are in the     *)
(* field descriptor list and are keys of the dictionary: a field whose     *)
(* name is not a key keeps its value, and a key that names no field causes *)
(* no write and no error.                                                  *)
(***************************************************************************)
RecordCall ==
    DictCall /\ destType.kind = "struct" /\ destType.hook = "none" /\ destType.infoOK

FieldNames == {destType.fields[j].name : j \in 1..Len(destType.fields)}

CauseField(cause) == IF cause.e = "wrap" THEN cause.loc.field ELSE cause.field

C6_OnlyPresentFields ==
    RecordCall =>
        /\ \A j \in 1..Len(destType.fields) :
              ~KeyOccurs(destType.fields[j].name) => dest[j] = before[j]
        /\ result.e \in {"nil", "multi"}
        /\ result.e = "multi" =>
              \A c \in 1..Len(result.errors) :
                 CauseField(result.errors[c]) \in FieldNames /\ KeyOccurs(CauseField(result.errors[c]))
        /\ (\A i \in 1..Len(doc.keys) : doc.keys[i] \notin FieldNames) =>
              result.e = "nil" /\ dest = before

\* one key writes its field, one key names no field, one field has no key
C6_Witness ==
    /\ RecordCall /\ Len(destType.fields) = 2
    /\ KeyOccurs("a") /\ KeyOccurs("z") /\ ~KeyOccurs("b")
    /\ result.e = "nil"
    /\ dest[1] # before[1]
    /\ dest[2] = before[2]

(***************************************************************************)
(* C7: lax coercion is gated by the lax flag and applies to String nodes.  *)
(***************************************************************************)
\* what the same call returns under the other setting of lax mode
OtherLax == unmarshal(doc, destType, before, ~laxMode)

SameUnderOtherLax ==
    /\ OtherLax.err.e = result.e
    /\ OtherLax.err = result
    /\ OtherLax.val = dest

RECURSIVE HasString(_)
HasString(pval) ==
    CASE pval.t = "string" -> TRUE
      [] pval.t \in {"array", "dictionary"} ->
            \E i \in 1..Len(pval.values) : HasString(pval.values[i])
      [] OTHER -> FALSE

IsIntegerDest == IsIntKind(destType.kind) \/ IsUintKind(destType.kind)

\* String("42") into an integer destination: 42 when lax, a mismatch and no
\* write when strict
LaxFortyTwo ==
    (ncalls > 0 /\ doc = CfString("42") /\ IsIntegerDest) =>
        IF laxMode
        THEN result.e = "nil" /\ dest = 42
        ELSE IsMismatch(result, destType, doc) /\ dest = before

(***************************************************************************)
(* C7 as stated: String("42") into an integer destination gives 42 with    *)
(* lax mode on and a type-mismatch error with the destination unchanged    *)
(* with lax mode off, and the outcome of decoding a node of any other kind *)
(* than String is the same with lax mode on and off.                       *)
(***************************************************************************)
C7_LaxOnlyStringNodes ==
    /\ LaxFortyTwo
    /\ (ncalls > 0 /\ doc.t # "string") => SameUnderOtherLax

(***************************************************************************)
(* C7 amended: as stated, for every node that is not a String and          *)
(* contains no String (an Array or Dictionary decodes its String children  *)
(* under the lax flag too).                                                *)
(***************************************************************************)
C7_LaxOnlyStrings ==
    /\ LaxFortyTwo
    /\ (ncalls > 0 /\ ~HasString(doc)) => SameUnderOtherLax

\* the lax coercion of "42" has happened
C7_Witness ==
    /\ ncalls > 0 /\ doc = CfString("42") /\ destType.kind = "int64" /\ laxMode
    /\ result.e = "nil" /\ dest = 42 /\ before # 42

(***************************************************************************)
(* C8: decoding an absent node returns success and leaves every            *)
(* destination as it was: an unset pointer stays unset, no hook is         *)
(* invoked, an any-slot keeps its value.                                   *)
(***************************************************************************)
C8_AbsentIsNoOp ==
    (ncalls > 0 /\ doc.t = "nil") => result.e = "nil" /\ dest = before

\* an absent node has been decoded into an unset pointer
C8_Witness ==
    /\ ncalls > 0 /\ doc.t = "nil"
    /\ destType.kind = "ptr" /\ before.isnil /\ dest.isnil

(***************************************************************************)
(* C10: a Date node, when the resolved destination is neither an any-slot  *)
(* nor a custom-hook type, decodes if and only if the destination is the   *)
(* timestamp type, which receives the time verbatim; any other destination *)
(* gives a type-mismatch error, is not written, and its textual hook is    *)
(* not invoked.  A destination with a custom hook receives every node kind *)
(* through the hook, whose result is returned as it is.                    *)
(***************************************************************************)
DateCall ==
    /\ ncalls > 0 /\ doc.t = "date"
    /\ ~isEmptyInterface(ResolvedType(destType))
    /\ ResolvedType(destType).hook # "plist"

C10_DateDispatch ==
    /\ DateCall =>
          LET typ == ResolvedType(destType)
          IN IF typ.name = "time.Time"
             THEN result.e = "nil" /\ ResolvedVal(destType, dest) = doc.time
             ELSE /\ IsMismatch(result, typ, doc)
                  /\ ResolvedVal(destType, dest) = ResolvedVal(destType, before)
    /\ (ncalls > 0 /\ doc.t # "nil" /\ destType.hook = "plist") =>
          /\ dest.calls = before.calls + 1
          /\ result.e = DecodedAlone(doc, destType.target).err.e
          /\ result.e = "nil" => dest.got = DecodedAlone(doc, destType.target).val

\* a Date has been refused by a destination with a textual hook
C10_Witness ==
    /\ DateCall /\ destType.hook = "text"
    /\ result.e = "incompatible" /\ dest.calls = 0

(***************************************************************************)
(* C9: in sequence decode the cause recorded for a failing element carries *)
(* the 0-based index of that element in the source Array, for fixed-size   *)
(* destinations and for growable destinations of any initial length.       *)
(***************************************************************************)
C9_TagIsSourceIndex ==
    (ArrayCall /\ destType.kind \in {"slice", "array"} /\ result.e = "multi") =>
        {result.errors[c].loc.n : c \in 1..Len(result.errors)} = {i - 1 : i \in SeqFailing}

====
